---- MODULE Spec2Model ----
(***************************************************************************)
(* sktime/split/temporal_train_test_split.py                               *)
(*                                                                         *)
(* TemporalTrainTestSplitter (constructor, _split, get_n_splits,           *)
(* get_test_params) and the function temporal_train_test_split.            *)
(*                                                                         *)
(* An index is a sequence of entries [g |-> series, i |-> iloc]; a single  *)
(* series of length N is the entries with g = 1 and i = 0 .. N-1.  A size  *)
(* is None, an int count, or a float num/den (exact rational arithmetic).  *)
(* ExpandingGreedySplitter and BaseSplitter are imported by the file and   *)
(* are not part of it: they are modelled from the specification (a         *)
(* splitter partitions the index it is handed into a train and a test      *)
(* sub-sequence; floats are rounded up; counts are clamped to what is      *)
(* available).                                                             *)
(***************************************************************************)
EXTENDS Integers, Sequences, FiniteSets, TLC

VARIABLES pc, self, ctor, first, last, between

vars == <<pc, self, ctor, first, last, between>>

\* ------------------------------------------------------------------ bounds
MaxN == 5
MaxCount == 4
FracDen == 4
MaxSeriesLen == 3

\* ------------------------------------------------------------------ values
None == [kind |-> "none", num |-> 0, den |-> 1]
IntSize(k) == [kind |-> "int", num |-> k, den |-> 1]
FloatSize(p, q) == [kind |-> "float", num |-> p, den |-> q]

isinstance_int(size) == size.kind = "int"
isinstance_float(size) == size.kind = "float"

\* the sizes of get_test_params: 0.2, 0.3, 2, 3
get_test_params ==
  << [test_size |-> FloatSize(2, 10), train_size |-> FloatSize(3, 10)],
     [test_size |-> IntSize(2)],
     [train_size |-> IntSize(3)],
     << >> >>

Floats == {FloatSize(p, FracDen) : p \in 1..FracDen}
Ints == {IntSize(k) : k \in 0..MaxCount}
Sizes == {None} \cup Floats \cup Ints
Anchors == {"start", "end"}
ParamNames == {"train_size", "test_size", "anchor"}
\* the series lengths tried: 0 .. MaxN, and 10 (the length of the documented
\* example and of the specification's scenarios)
Lengths == (0..MaxN) \cup {10}
Panels == {<<a, b>> : a \in 0..MaxSeriesLen, b \in 0..MaxSeriesLen}
FhValues == {"None", "fh"}

NoObject == [train_size |-> None, test_size |-> None, anchor |-> "",
             split_hierarchical |-> FALSE]
NoSplit == [N |-> -1, train |-> << >>, test |-> << >>]

Min(a, b) == IF a <= b THEN a ELSE b
Ceil(p, q) == (p + q - 1) \div q
Floor(p, q) == p \div q

\* the integers a, a+1, ..., b-1 as a sequence (empty when b <= a)
Range(a, b) == [j \in 1..(b - a) |-> a + j - 1]
Elems(s) == {s[j] : j \in 1..Len(s)}

\* ------------------------------------------------------------------ indices
RangeIndex(n) == [j \in 1..n |-> [g |-> 1, i |-> j - 1]]

\* the iloc array a splitter returned, handed to a splitter again: a flat index
coerce_to_index(ix) == [j \in 1..Len(ix) |-> [g |-> 1, i |-> ix[j]]]

Base(lens, s) == IF s = 1 THEN 0 ELSE lens[1]
GroupedIndex(lens) ==
  [j \in 1..(lens[1] + lens[2]) |->
     IF j <= lens[1] THEN [g |-> 1, i |-> j - 1] ELSE [g |-> 2, i |-> j - 1]]
SeriesIndex(lens, s) ==
  [j \in 1..lens[s] |-> [g |-> 1, i |-> Base(lens, s) + j - 1]]

\* ------------------------------------------------- ExpandingGreedySplitter
\* the count a size stands for, on n available positions
Count(size, n) ==
  IF isinstance_float(size) THEN Ceil(size.num * n, size.den) ELSE size.num

\* ExpandingGreedySplitter(test_size, folds=1, reverse).split(y), first fold:
\* per series, the last (reverse: the first) Count positions are the test set
ExpandingGreedySplitter(test_size, reverse, y) ==
  LET n == Len(y)
      size(j) == Cardinality({m \in 1..n : y[m].g = y[j].g})
      fromStart(j) == Cardinality({m \in 1..(j - 1) : y[m].g = y[j].g})
      fromEnd(j) == Cardinality({m \in (j + 1)..n : y[m].g = y[j].g})
      k(j) == Min(size(j), Count(test_size, size(j)))
      inTest(j) == IF reverse THEN fromStart(j) < k(j) ELSE fromEnd(j) < k(j)
      trn[j \in 0..n] ==
        IF j = 0 THEN << >>
        ELSE IF inTest(j) THEN trn[j - 1] ELSE Append(trn[j - 1], y[j].i)
      tst[j \in 0..n] ==
        IF j = 0 THEN << >>
        ELSE IF inTest(j) THEN Append(tst[j - 1], y[j].i) ELSE tst[j - 1]
  IN <<trn[n], tst[n]>>

\* ------------------------------------------------- TemporalTrainTestSplitter
\* the class attribute _tags["split_hierarchical"]
class_split_hierarchical == TRUE

\* TemporalTrainTestSplitter(**kwargs): the signature has no defaults, so
\* a call that leaves a parameter out raises TypeError before the body runs
__init__(kwargs) ==
  IF DOMAIN kwargs # ParamNames
  THEN [raised |-> "TypeError", self |-> NoObject]
  ELSE LET train_size == kwargs["train_size"]
           test_size == kwargs["test_size"]
           train_size_none_flt == train_size = None \/ isinstance_int(train_size)
       IN [raised |-> "",
           self |-> [train_size |-> train_size,
                     test_size |-> test_size,
                     anchor |-> kwargs["anchor"],
                     split_hierarchical |->
                       IF ~isinstance_int(test_size) \/ ~train_size_none_flt
                       THEN FALSE
                       ELSE class_split_hierarchical]]

\* the default test size 0.25
DefaultTestSize == FloatSize(1, 4)

\* mutant: the configured anchor is kept when train_size is None
_split_locals_keep_anchor(slf) ==
  LET train_size == slf.train_size
      test_size == IF slf.test_size = None /\ train_size = None
                   THEN DefaultTestSize ELSE slf.test_size
  IN [test_size |-> test_size,
      train_size |-> train_size,
      anchor |-> IF test_size = None THEN "start" ELSE slf.anchor]

\* _split, the locals after the default and the anchor inference
_split_locals(slf) ==
  LET train_size == slf.train_size
      test_size == IF slf.test_size = None /\ train_size = None
                   THEN DefaultTestSize ELSE slf.test_size
      anchor1 == IF train_size = None THEN "end" ELSE slf.anchor
      anchor == IF test_size = None THEN "start" ELSE anchor1
  IN [test_size |-> test_size, train_size |-> train_size, anchor |-> anchor]

\* mutant: the train set is cut from the whole index, not from what the
\* test cut left
_split_end_from_whole(test_size, train_size, y) ==
  LET s1 == ExpandingGreedySplitter(test_size, FALSE, y)
  IN IF train_size # None
     THEN [train |-> ExpandingGreedySplitter(train_size, FALSE, y)[2],
           test |-> s1[2]]
     ELSE [train |-> s1[1], test |-> s1[2]]

\* _split, the branch anchor == "end"
_split_end(test_size, train_size, y) ==
  LET s1 == ExpandingGreedySplitter(test_size, FALSE, y)
      y_train_ix == s1[1]
      y_test_ix == s1[2]
  IN IF train_size # None
     THEN LET s2 == ExpandingGreedySplitter(train_size, FALSE,
                                            coerce_to_index(y_train_ix))
          IN [train |-> s2[2], test |-> y_test_ix]
     ELSE [train |-> y_train_ix, test |-> y_test_ix]

\* _split, the branch anchor == "start"
_split_start(test_size, train_size, y) ==
  LET s1 == ExpandingGreedySplitter(train_size, TRUE, y)
      y_test_ix == s1[1]
      y_train_ix == s1[2]
  IN IF train_size # None
     THEN LET s2 == ExpandingGreedySplitter(train_size, TRUE,
                                            coerce_to_index(y_test_ix))
          IN [train |-> y_train_ix, test |-> s2[1]]
     ELSE [train |-> y_train_ix, test |-> y_test_ix]

\* mutant: the default test size is written back to the object
_split_stores_default(slf, y) ==
  LET loc == _split_locals(slf)
      pair == IF loc.anchor = "end"
              THEN _split_end(loc.test_size, loc.train_size, y)
              ELSE _split_start(loc.test_size, loc.train_size, y)
  IN [self |-> [slf EXCEPT !.test_size = loc.test_size],
      anchor |-> loc.anchor,
      yielded |-> <<pair>>]

\* TemporalTrainTestSplitter._split(y): the object after the call, the
\* local anchor at the branch, and the pairs the generator yields
_split(slf, y) ==
  LET loc == _split_locals(slf)
      pair == IF loc.anchor = "end"
              THEN _split_end(loc.test_size, loc.train_size, y)
              ELSE _split_start(loc.test_size, loc.train_size, y)
  IN [self |-> slf, anchor |-> loc.anchor, yielded |-> <<pair>>]

get_n_splits(slf) == 1

\* BaseSplitter.split on a panel of two series: a splitter whose tag
\* split_hierarchical is True is handed the whole grouped index, any other
\* is applied to each series' own index
split(slf, lens) ==
  IF slf.split_hierarchical
  THEN _split(slf, GroupedIndex(lens)).yielded[1]
  ELSE LET p1 == _split(slf, SeriesIndex(lens, 1)).yielded[1]
           p2 == _split(slf, SeriesIndex(lens, 2)).yielded[1]
       IN [train |-> p1.train \o p2.train, test |-> p1.test \o p2.test]

\* ------------------------------------------------ temporal_train_test_split
\* mutant: the usage error is raised only when both sizes are given
temporal_train_test_split_and(N, hasX, test_size, train_size, fh) ==
  IF fh # "None"
  THEN IF test_size # None /\ train_size # None
       THEN [raised |-> "ValueError", constructed |-> 0, fh_splits |-> 0,
             size_splits |-> 0, returned |-> 0]
       ELSE [raised |-> "", constructed |-> 0, fh_splits |-> 1,
             size_splits |-> 0, returned |-> IF hasX THEN 4 ELSE 2]
  ELSE LET obj == __init__([test_size |-> test_size, train_size |-> train_size])
       IN IF obj.raised # ""
          THEN [raised |-> obj.raised, constructed |-> 1, fh_splits |-> 0,
                size_splits |-> 0, returned |-> 0]
          ELSE [raised |-> "", constructed |-> 1, fh_splits |-> 0,
                size_splits |-> Len(_split(obj.self, RangeIndex(N)).yielded),
                returned |-> IF hasX THEN 4 ELSE 2]

\* temporal_train_test_split(y, X, test_size, train_size, fh) on a series y of
\* length N: what it raised, how many splitters it constructed, how many
\* horizon-based and size-based splits it ran, how many objects it returned
temporal_train_test_split(N, hasX, test_size, train_size, fh) ==
  IF fh # "None"
  THEN IF test_size # None \/ train_size # None
       THEN [raised |-> "ValueError", constructed |-> 0, fh_splits |-> 0,
             size_splits |-> 0, returned |-> 0]
       ELSE [raised |-> "", constructed |-> 0, fh_splits |-> 1,
             size_splits |-> 0, returned |-> IF hasX THEN 4 ELSE 2]
  ELSE LET obj == __init__([test_size |-> test_size, train_size |-> train_size])
       IN IF obj.raised # ""
          THEN [raised |-> obj.raised, constructed |-> 1, fh_splits |-> 0,
                size_splits |-> 0, returned |-> 0]
          ELSE [raised |-> "", constructed |-> 1, fh_splits |-> 0,
                size_splits |-> Len(_split(obj.self, RangeIndex(N)).yielded),
                returned |-> IF hasX THEN 4 ELSE 2]

\* ------------------------------------------------------------------ actions
Init ==
  /\ pc = "new"
  /\ self = NoObject
  /\ ctor = NoObject
  /\ first = NoSplit
  /\ last = [op |-> "none"]
  /\ between = FALSE

\* the keyword arguments of a call that passes the parameters in `given`
Kwargs(given, train_size, test_size, anchor) ==
  [n \in given |-> CASE n = "train_size" -> train_size
                     [] n = "test_size" -> test_size
                     [] OTHER -> anchor]

\* TemporalTrainTestSplitter(...) with the parameters in `given` passed
Construct(given, train_size, test_size, anchor) ==
  LET obj == __init__(Kwargs(given, train_size, test_size, anchor))
  IN /\ pc = "new"
     /\ pc' = IF obj.raised = "" THEN "ready" ELSE "raised"
     /\ self' = obj.self
     /\ ctor' = obj.self
     /\ last' = [op |-> "__init__", given |-> given, raised |-> obj.raised]
     /\ UNCHANGED <<first, between>>

\* TemporalTrainTestSplitter(**get_test_params()[i])
ConstructTestInstance(i) ==
  LET params == get_test_params[i]
      obj == __init__(params)
  IN /\ pc = "new"
     /\ pc' = IF obj.raised = "" THEN "ready" ELSE "raised"
     /\ self' = obj.self
     /\ ctor' = obj.self
     /\ last' = [op |-> "__init__", given |-> DOMAIN params,
                 raised |-> obj.raised]
     /\ UNCHANGED <<first, between>>

\* splitter._split(y) on the index of one series of length N
Split(N) ==
  LET r == _split(self, RangeIndex(N))
      pair == r.yielded[1]
      res == [N |-> N, train |-> pair.train, test |-> pair.test]
  IN /\ pc = "ready"
     /\ self' = r.self
     /\ last' = [op |-> "_split", N |-> N, train |-> pair.train,
                 test |-> pair.test, anchor |-> r.anchor,
                 pairs |-> Len(r.yielded)]
     /\ first' = IF first = NoSplit THEN res ELSE first
     /\ between' = (between \/ (first # NoSplit /\ first.N # N))
     /\ UNCHANGED <<pc, ctor>>

GetNSplits ==
  /\ pc = "ready"
  /\ last' = [op |-> "get_n_splits", ret |-> get_n_splits(self)]
  /\ UNCHANGED <<pc, self, ctor, first, between>>

\* splitter.split(y) on a panel of two series of the lengths lens
SplitPanel(lens) ==
  LET pair == split(self, lens)
  IN /\ pc = "ready"
     /\ last' = [op |-> "split", lens |-> lens, train |-> pair.train,
                 test |-> pair.test]
     /\ UNCHANGED <<pc, self, ctor, first, between>>

TemporalTrainTestSplit(N, hasX, test_size, train_size, fh) ==
  LET r == temporal_train_test_split(N, hasX, test_size, train_size, fh)
  IN /\ pc = "new"
     /\ pc' = IF r.raised = "" THEN "returned" ELSE "raised"
     /\ last' = [op |-> "temporal_train_test_split", N |-> N, fh |-> fh,
                 test_size |-> test_size, train_size |-> train_size,
                 raised |-> r.raised, constructed |-> r.constructed,
                 fh_splits |-> r.fh_splits, size_splits |-> r.size_splits,
                 returned |-> r.returned]
     /\ UNCHANGED <<self, ctor, first, between>>

Next ==
  \/ \E given \in SUBSET ParamNames, train_size \in Sizes, test_size \in Sizes,
        anchor \in Anchors : Construct(given, train_size, test_size, anchor)
  \/ \E i \in 1..Len(get_test_params) : ConstructTestInstance(i)
  \/ \E N \in Lengths : Split(N)
  \/ GetNSplits
  \/ \E N \in Lengths, hasX \in BOOLEAN, test_size \in Sizes,
        train_size \in Sizes, fh \in FhValues :
        TemporalTrainTestSplit(N, hasX, test_size, train_size, fh)

\* one splitter, or one call of temporal_train_test_split, on single series
Spec == Init /\ [][Next]_vars

NextPanel ==
  \/ \E given \in SUBSET ParamNames, train_size \in Sizes, test_size \in Sizes,
        anchor \in Anchors : Construct(given, train_size, test_size, anchor)
  \/ \E lens \in Panels : SplitPanel(lens)

\* one splitter on panels of two series
SpecPanel == Init /\ [][NextPanel]_vars

\* ------------------------------------------------------------------ claims
\* the counts the specification's size normalizer gives on a series of length N
SpecTestCount(size, N) ==
  IF isinstance_float(size) THEN Ceil(size.num * N, size.den) ELSE size.num
SpecTrainCount(size, N) ==
  IF isinstance_float(size) THEN Floor(size.num * N, size.den) ELSE size.num

\* ascending, each entry the successor of the one before
IsContiguous(s) == \A j \in 1..(Len(s) - 1) : s[j + 1] = s[j] + 1

BothGiven == self.train_size # None /\ self.test_size # None
AfterSplit == pc = "ready" /\ last.op = "_split"

\* C1: for every length N, anchor and size specification, the pair _split
\* yields is two contiguous ascending sub-ranges of [0, N) that are disjoint
\* and whose lengths sum to at most N.
C1_DisjointContiguousRanges ==
  AfterSplit =>
    /\ IsContiguous(last.train)
    /\ IsContiguous(last.test)
    /\ Elems(last.train) \subseteq 0..(last.N - 1)
    /\ Elems(last.test) \subseteq 0..(last.N - 1)
    /\ Elems(last.train) \cap Elems(last.test) = {}
    /\ Len(last.train) + Len(last.test) <= last.N

\* two integer counts whose sum exceeds N, anchor "end", both ranges non-empty
C1_Witness ==
  /\ AfterSplit
  /\ isinstance_int(self.train_size) /\ isinstance_int(self.test_size)
  /\ self.anchor = "end"
  /\ self.train_size.num + self.test_size.num > last.N
  /\ Len(last.train) > 0 /\ Len(last.test) > 0

\* C2: anchor "start" with both sizes given: train is the first train_count
\* positions and test is [train_count, train_count + test_count) clamped to
\* N, its length set by test_size, with no gap after train.
C2_StartTestFollowsTrain ==
  (AfterSplit /\ BothGiven /\ self.anchor = "start") =>
    LET N == last.N
        train_count == Min(N, SpecTrainCount(self.train_size, N))
        test_count == SpecTestCount(self.test_size, N)
    IN /\ last.train = Range(0, train_count)
       /\ last.test = Range(train_count, Min(N, train_count + test_count))

\* C3: anchor "end" (explicit with both sizes, or inferred because
\* train_size is absent): test is the last test_count positions and train is
\* the last train_count positions of the head [0, N - test_count).  The
\* train_count of a float train_size may be train_size * N rounded either way.
C3_EndTrainPrecedesTest ==
  (AfterSplit /\ (self.train_size = None \/ (BothGiven /\ self.anchor = "end"))) =>
    LET N == last.N
        test_size == IF self.test_size = None THEN DefaultTestSize
                     ELSE self.test_size
        test_count == Min(N, SpecTestCount(test_size, N))
        head == N - test_count
        train_counts ==
          IF self.train_size = None THEN {head}
          ELSE {Min(head, SpecTrainCount(self.train_size, N)),
                Min(head, SpecTestCount(self.train_size, N))}
    IN /\ last.test = Range(head, N)
       /\ \E train_count \in train_counts :
            last.train = Range(head - train_count, head)

\* C4: complement law: when exactly one of train_size and test_size is
\* given, the absent side receives all remaining positions, so the two
\* lengths sum to N.
C4_ComplementLaw ==
  (AfterSplit /\ ((self.train_size = None) # (self.test_size = None))) =>
    /\ Len(last.train) + Len(last.test) = last.N
    /\ self.train_size = None => Len(last.train) = last.N - Len(last.test)
    /\ self.test_size = None => Len(last.test) = last.N - Len(last.train)

\* C5: every constructor parameter is optional: a construction with
\* parameters left out succeeds, and temporal_train_test_split without fh
\* returns a split instead of raising.
C5_ConstructorParametersOptional ==
  /\ last.op = "__init__" => last.raised = ""
  /\ (last.op = "temporal_train_test_split" /\ last.fh = "None") =>
       (last.raised = "" /\ last.returned > 0)

\* C6: temporal_train_test_split with fh and a test_size or a train_size
\* raises ValueError before any splitter is constructed and before any split;
\* with fh and no size it runs the horizon-based split and constructs no
\* splitter.
C6_FhWithSizesIsUsageError ==
  (last.op = "temporal_train_test_split" /\ last.fh # "None") =>
    IF last.test_size # None \/ last.train_size # None
    THEN /\ last.raised = "ValueError"
         /\ last.constructed = 0
         /\ last.fh_splits = 0
         /\ last.size_splits = 0
         /\ last.returned = 0
    ELSE /\ last.raised = ""
         /\ last.constructed = 0
         /\ last.fh_splits = 1
         /\ last.size_splits = 0

\* fh together with a test_size alone, rejected
C6_Witness ==
  /\ last.op = "temporal_train_test_split"
  /\ last.fh = "fh"
  /\ isinstance_float(last.test_size)
  /\ last.train_size = None
  /\ last.raised = "ValueError"

\* C7: float sizes become counts relative to the total length N,
\* test_count = ceiling(test_size * N) and train_count = floor(train_size * N),
\* independently of each other.  Stated for the anchor "end" (test is cut
\* first, train after it) on lengths where train_size * N is whole, so that
\* the direction of the rounding plays no part.
C7_FractionsOfTotalLength ==
  (/\ AfterSplit
   /\ isinstance_float(self.test_size)
   /\ isinstance_float(self.train_size)
   /\ self.anchor = "end"
   /\ (self.train_size.num * last.N) % self.train_size.den = 0) =>
    LET N == last.N
        test_count == Min(N, Ceil(self.test_size.num * N, self.test_size.den))
        train_count ==
          Min(N - test_count, Floor(self.train_size.num * N, self.train_size.den))
    IN /\ Len(last.test) = test_count
       /\ Len(last.train) = train_count

\* C8: anchor inference overrides the configured anchor: train_size absent
\* gives "end", test_size absent (train_size given) gives "start", only with
\* both given is the configured anchor used; with both absent the test set is
\* the last ceiling(0.25 * N) positions and train is everything before it.
C8_AnchorInference ==
  AfterSplit =>
    /\ last.anchor = (IF self.train_size = None THEN "end"
                      ELSE IF self.test_size = None THEN "start"
                      ELSE self.anchor)
    /\ (self.train_size = None /\ self.test_size = None) =>
         /\ last.test = Range(last.N - Ceil(last.N, 4), last.N)
         /\ last.train = Range(0, last.N - Ceil(last.N, 4))

\* configured "start", train_size absent: the split is anchored at the end
C8_Witness ==
  /\ AfterSplit
  /\ self.anchor = "start"
  /\ self.train_size = None
  /\ isinstance_int(self.test_size)
  /\ last.anchor = "end"
  /\ Len(last.test) > 0
  /\ Len(last.train) > 0

\* the split of each series on its own, moved to the series' place in the panel
PerSeries(slf, lens) ==
  LET one(s) == _split(slf, RangeIndex(lens[s])).yielded[1]
      shift(ix, s) == [j \in 1..Len(ix) |-> ix[j] + Base(lens, s)]
  IN [train |-> shift(one(1).train, 1) \o shift(one(2).train, 2),
      test |-> shift(one(1).test, 1) \o shift(one(2).test, 2)]

\* C9: on a panel every configuration splits each series independently and
\* identically to the single-series case, and the tag split_hierarchical is
\* True exactly when test_size is an int and train_size is absent or an int.
C9_PanelSplitsPerSeries ==
  (pc = "ready" /\ last.op = "split") =>
    /\ self.split_hierarchical =
         (isinstance_int(self.test_size)
            /\ (self.train_size = None \/ isinstance_int(self.train_size)))
    /\ last.train = PerSeries(self, last.lens).train
    /\ last.test = PerSeries(self, last.lens).test

\* C10: the splitter is a stateless configuration holder: after any calls the
\* stored parameters are the constructed ones, a split of a length split
\* before gives the same pair, every call yields one pair, get_n_splits is 1.
C10_StatelessSplitter ==
  pc = "ready" =>
    /\ self = ctor
    /\ last.op = "_split" =>
         /\ last.pairs = 1
         /\ first.N = last.N =>
              (first.train = last.train /\ first.test = last.test)
    /\ last.op = "get_n_splits" => last.ret = 1

\* both sizes absent (the default 0.25 is substituted), the first length split
\* again after a split of another length
C10_Witness ==
  /\ AfterSplit
  /\ self.train_size = None /\ self.test_size = None
  /\ between
  /\ first.N = last.N
  /\ Len(last.test) > 0

====
